---- MODULE Spec2Model ----
(***************************************************************************)
(* Shopping cart of Module8-Portfolio.py: ItemToPurchase, ShoppingCart,    *)
(* main and the print_menu command loop; and the course catalog of         *)
(* Module7.py.                                                             *)
(*                                                                         *)
(* Representation.                                                         *)
(*   - A Python str is a sequence of one-character strings.                *)
(*   - A Python float is a record [k, v]: k = "fin" with v the value in    *)
(*     hundredths, or k = "nan" / "inf" / "ninf" for the IEEE specials     *)
(*     that float() produces from the lines "nan", "inf", "-inf".  The     *)
(*     input lines used below carry at most two fractional digits, so      *)
(*     every finite value is exact in hundredths.                          *)
(*   - An optional keyword argument is a record [given, v].                *)
(*   - stdin_eof is TRUE once standard input is exhausted; catalog holds   *)
(*     the tables and the index of the course catalog.                     *)
(***************************************************************************)
EXTENDS Integers, Sequences, FiniteSets, TLC

VARIABLES cart_items, pc, pending, out, raised, call, stdin_eof, catalog

vars == <<cart_items, pc, pending, out, raised, call, stdin_eof, catalog>>

(***************************************************************************)
(* Bounds                                                                  *)
(***************************************************************************)
MaxItems == 2

(***************************************************************************)
(* str                                                                     *)
(***************************************************************************)
UpperLetters == <<"A","B","C","D","E","F","G","H","I","J","K","L","M",
                  "N","O","P","Q","R","S","T","U","V","W","X","Y","Z">>

LowerLetters == <<"a","b","c","d","e","f","g","h","i","j","k","l","m",
                  "n","o","p","q","r","s","t","u","v","w","x","y","z">>

Digits == <<"0","1","2","3","4","5","6","7","8","9">>

IsSpace(c) == c = " "

IsDigit(c) == \E i \in DOMAIN Digits : Digits[i] = c

DigitVal(c) == (CHOOSE i \in DOMAIN Digits : Digits[i] = c) - 1

LowerChar(c) ==
    IF \E i \in DOMAIN UpperLetters : UpperLetters[i] = c
    THEN LowerLetters[CHOOSE i \in DOMAIN UpperLetters : UpperLetters[i] = c]
    ELSE c

\* str.lower()
Lower(s) == [i \in DOMAIN s |-> LowerChar(s[i])]

RECURSIVE LStrip(_)
LStrip(s) == IF s # <<>> /\ IsSpace(Head(s)) THEN LStrip(Tail(s)) ELSE s

RECURSIVE RStrip(_)
RStrip(s) ==
    IF s # <<>> /\ IsSpace(s[Len(s)]) THEN RStrip(SubSeq(s, 1, Len(s) - 1)) ELSE s

\* str.strip()
Strip(s) == RStrip(LStrip(s))

NoneStr == <<"n","o","n","e">>

(***************************************************************************)
(* float                                                                   *)
(***************************************************************************)
Fin(n) == [k |-> "fin", v |-> n]
NaN    == [k |-> "nan", v |-> 0]
PosInf == [k |-> "inf", v |-> 0]
NegInf == [k |-> "ninf", v |-> 0]

\* x >= 0
FGe0(x) == (x.k = "fin" /\ x.v >= 0) \/ x.k = "inf"

\* x < 0
FLt0(x) == (x.k = "fin" /\ x.v < 0) \/ x.k = "ninf"

\* x != 0
FNe0(x) == ~(x.k = "fin" /\ x.v = 0)

\* float * int
FMulInt(x, n) ==
    CASE x.k = "fin" -> Fin(x.v * n)
      [] x.k = "nan" -> NaN
      [] x.k = "inf" -> IF n > 0 THEN PosInf ELSE IF n < 0 THEN NegInf ELSE NaN
      [] x.k = "ninf" -> IF n > 0 THEN NegInf ELSE IF n < 0 THEN PosInf ELSE NaN

\* float + float
FAdd(x, y) ==
    CASE x.k = "nan" \/ y.k = "nan" -> NaN
      [] x.k = "fin" /\ y.k = "fin" -> Fin(x.v + y.v)
      [] x.k = "fin" -> y
      [] y.k = "fin" -> x
      [] x.k = y.k -> x
      [] OTHER -> NaN

(***************************************************************************)
(* int(raw) and float(raw) on a line of text                               *)
(***************************************************************************)
AllDigits(s) == s # <<>> /\ \A i \in DOMAIN s : IsDigit(s[i])

RECURSIVE DigitsVal(_)
DigitsVal(s) ==
    IF s = <<>> THEN 0
    ELSE 10 * DigitsVal(SubSeq(s, 1, Len(s) - 1)) + DigitVal(s[Len(s)])

HasSign(s) == s # <<>> /\ Head(s) \in {"-", "+"}

Unsigned(s) == IF HasSign(s) THEN Tail(s) ELSE s

SignOf(s) == IF s # <<>> /\ Head(s) = "-" THEN -1 ELSE 1

Contains(s, c) == \E i \in DOMAIN s : s[i] = c

\* int(raw): optional sign and decimal digits, surrounding blanks ignored;
\* anything else is a ValueError (ok = FALSE).
ParseInt(raw) ==
    LET t == Strip(raw)
        u == Unsigned(t)
    IN  IF AllDigits(u)
        THEN [ok |-> TRUE, val |-> SignOf(t) * DigitsVal(u)]
        ELSE [ok |-> FALSE, val |-> 0]

DotPos(s) == CHOOSE i \in DOMAIN s : s[i] = "."

\* the first two fractional digits as hundredths
Hundredths(f) ==
    IF f = <<>> THEN 0
    ELSE IF Len(f) = 1 THEN 10 * DigitVal(f[1])
    ELSE 10 * DigitVal(f[1]) + DigitVal(f[2])

\* float(raw): optional sign, then nan / inf / infinity in any case, or a
\* decimal numeral with an optional fractional part; anything else is a
\* ValueError (ok = FALSE).
ParseFloat(raw) ==
    LET t == Strip(raw)
        u == Unsigned(t)
        w == Lower(u)
    IN  IF w = <<"n","a","n">> THEN [ok |-> TRUE, val |-> NaN]
        ELSE IF w \in {<<"i","n","f">>, <<"i","n","f","i","n","i","t","y">>}
        THEN [ok |-> TRUE, val |-> IF SignOf(t) < 0 THEN NegInf ELSE PosInf]
        ELSE IF AllDigits(u)
        THEN [ok |-> TRUE, val |-> Fin(SignOf(t) * 100 * DigitsVal(u))]
        ELSE IF Contains(u, ".")
        THEN LET p == DotPos(u)
                 whole == SubSeq(u, 1, p - 1)
                 frac == SubSeq(u, p + 1, Len(u))
             IN  IF /\ \A i \in DOMAIN whole : IsDigit(whole[i])
                    /\ \A i \in DOMAIN frac : IsDigit(frac[i])
                    /\ Len(whole) + Len(frac) > 0
                 THEN [ok |-> TRUE,
                       val |-> Fin(SignOf(t) * (100 * DigitsVal(whole) + Hundredths(frac)))]
                 ELSE [ok |-> FALSE, val |-> Fin(0)]
        ELSE [ok |-> FALSE, val |-> Fin(0)]

(***************************************************************************)
(* ItemToPurchase                                                          *)
(***************************************************************************)
\* the dataclass constructor: no validation, defaults "none", 0.0, 0, "none"
ItemToPurchase(name, price, quantity, description) ==
    [item_name |-> name, item_price |-> price,
     item_quantity |-> quantity, item_description |-> description]

total_cost(it) ==
    LET price == IF FGe0(it.item_price) THEN it.item_price ELSE Fin(0)
        qty == IF it.item_quantity >= 0 THEN it.item_quantity ELSE 0
    IN  FMulInt(price, qty)

\* optional keyword arguments
NoStr == [given |-> FALSE, v |-> <<>>]
NoFloat == [given |-> FALSE, v |-> [num |-> TRUE, x |-> Fin(0)]]
NoInt == [given |-> FALSE, v |-> [int |-> TRUE, n |-> 0]]
Some(val) == [given |-> TRUE, v |-> val]

\* a price argument: a number (num) or a value float() rejects
Num(x) == [num |-> TRUE, x |-> x]
NotNum == [num |-> FALSE, x |-> Fin(0)]

\* a quantity argument: an int, or a value of another type (a float)
IntArg(n) == [int |-> TRUE, n |-> n]
NotInt == [int |-> FALSE, n |-> 0]

\* ItemToPurchase.update.  Each block validates its argument and assigns its
\* field at once; s is the item so far and whether a ValueError was raised,
\* after which the later blocks do not run.
Raise(s) == [item |-> s.item, raised |-> TRUE]

update_name(s, name) ==
    IF s.raised \/ ~name.given THEN s
    ELSE IF Strip(name.v) = <<>> THEN Raise(s)
    ELSE [s EXCEPT !.item.item_name = Strip(name.v)]

update_description(s, description) ==
    IF s.raised \/ ~description.given THEN s
    ELSE IF Strip(description.v) = <<>> THEN Raise(s)
    ELSE [s EXCEPT !.item.item_description = Strip(description.v)]

update_price(s, price) ==
    IF s.raised \/ ~price.given THEN s
    ELSE IF ~price.v.num THEN Raise(s)
    ELSE IF FLt0(price.v.x) THEN Raise(s)
    ELSE [s EXCEPT !.item.item_price = price.v.x]

update_quantity(s, quantity) ==
    IF s.raised \/ ~quantity.given THEN s
    ELSE IF ~quantity.v.int THEN Raise(s)
    ELSE IF quantity.v.n < 0 THEN Raise(s)
    ELSE [s EXCEPT !.item.item_quantity = quantity.v.n]

update(it, name, description, price, quantity) ==
    update_quantity(
        update_price(
            update_description(
                update_name([item |-> it, raised |-> FALSE], name),
                description),
            price),
        quantity)

(***************************************************************************)
(* ShoppingCart                                                            *)
(***************************************************************************)
\* index of the first item whose lowercased name equals key, 0 if none
FirstMatch(items, key) ==
    IF \E i \in DOMAIN items : Lower(items[i].item_name) = key
    THEN CHOOSE i \in DOMAIN items :
            /\ Lower(items[i].item_name) = key
            /\ \A j \in 1..(i - 1) : Lower(items[j].item_name) # key
    ELSE 0

\* del items[i]
DelAt(items, i) == SubSeq(items, 1, i - 1) \o SubSeq(items, i + 1, Len(items))

\* add_item refusing an item whose name is already in the cart
add_item_dedup(items, item_to_purchase) ==
    IF \E i \in DOMAIN items :
            Lower(items[i].item_name) = Lower(item_to_purchase.item_name)
    THEN items
    ELSE Append(items, item_to_purchase)

add_item(items, item_to_purchase) == Append(items, item_to_purchase)

\* remove_item comparing the names without lowercasing them
remove_item_case_sensitive(items, item_name) ==
    LET name == Strip(item_name)
        M == { i \in DOMAIN items : items[i].item_name = name }
    IN  IF M # {}
        THEN [items |-> DelAt(items, CHOOSE i \in M : \A j \in M : i <= j), out |-> {}]
        ELSE [items |-> items, out |-> {"not_found_removed"}]

\* remove_item with the del after the loop, on the last index the loop saw
remove_item_del_after_loop(items, item_name) ==
    LET name == Lower(Strip(item_name))
        i == FirstMatch(items, name)
    IN  IF i # 0
        THEN [items |-> DelAt(items, i), out |-> {}]
        ELSE [items |-> DelAt(items, Len(items)), out |-> {"not_found_removed"}]

remove_item(items, item_name) ==
    LET name == Lower(Strip(item_name))
        i == FirstMatch(items, name)
    IN  IF i # 0
        THEN [items |-> DelAt(items, i), out |-> {}]
        ELSE [items |-> items, out |-> {"not_found_removed"}]

\* ShoppingCart.modify_item: up to three separate update calls on the
\* target inside one try block; the first ValueError ends the block.
modify_description(s, patch) ==
    IF patch.item_description # NoneStr
    THEN update(s.item, NoStr, Some(patch.item_description), NoFloat, NoInt)
    ELSE s

modify_price(s, patch) ==
    IF ~s.raised /\ FNe0(patch.item_price)
    THEN update(s.item, NoStr, NoStr, Some(Num(patch.item_price)), NoInt)
    ELSE s

\* modify_quantity without the test item_quantity != 0
modify_quantity_zero_applied(s, patch) ==
    IF ~s.raised
    THEN update(s.item, NoStr, NoStr, NoFloat, Some(IntArg(patch.item_quantity)))
    ELSE s

modify_quantity(s, patch) ==
    IF ~s.raised /\ patch.item_quantity # 0
    THEN update(s.item, NoStr, NoStr, NoFloat, Some(IntArg(patch.item_quantity)))
    ELSE s

modify_target(target, patch) ==
    modify_quantity(
        modify_price(
            modify_description([item |-> target, raised |-> FALSE], patch),
            patch),
        patch)

modify_found(items, i, u) ==
    [items |-> [items EXCEPT ![i] = u.item],
     out |-> IF u.raised THEN {"rejected"} ELSE {}]

\* modify_at adding the patch to the cart when no item matches
modify_at_upsert(items, i, item_to_purchase) ==
    IF i = 0
    THEN [items |-> Append(items, item_to_purchase), out |-> {"not_found_modified"}]
    ELSE modify_found(items, i, modify_target(items[i], item_to_purchase))

modify_at(items, i, item_to_purchase) ==
    IF i = 0
    THEN [items |-> items, out |-> {"not_found_modified"}]
    ELSE modify_found(items, i, modify_target(items[i], item_to_purchase))

modify_item(items, item_to_purchase) ==
    modify_at(items, FirstMatch(items, Lower(Strip(item_to_purchase.item_name))),
              item_to_purchase)

RECURSIVE SumQuantities(_)
SumQuantities(items) ==
    IF items = <<>> THEN 0
    ELSE (IF Head(items).item_quantity > 0 THEN Head(items).item_quantity ELSE 0)
         + SumQuantities(Tail(items))

\* the number of entries instead of the sum of the quantities
get_num_items_as_len(items) == Len(items)

get_num_items_in_cart(items) == SumQuantities(items)

\* sum() starts from the int 0 and adds the costs left to right
RECURSIVE SumCosts(_, _)
SumCosts(acc, items) ==
    IF items = <<>> THEN acc
    ELSE SumCosts(FAdd(acc, total_cost(Head(items))), Tail(items))

RECURSIVE SumRawCosts(_, _)
SumRawCosts(acc, items) ==
    IF items = <<>> THEN acc
    ELSE SumRawCosts(FAdd(acc, FMulInt(Head(items).item_price, Head(items).item_quantity)),
                     Tail(items))

\* the total as the sum of price * quantity, without total_cost()'s guards
get_cost_of_cart_unguarded(items) == SumRawCosts(Fin(0), items)

get_cost_of_cart(items) == SumCosts(Fin(0), items)

(***************************************************************************)
(* Rendering.  A printed line is a record of its kind and its fields, each *)
(* field the text the format string puts there.                            *)
(***************************************************************************)
\* str(n) of a natural number
RECURSIVE NatStr(_)
NatStr(n) ==
    IF n < 10 THEN <<Digits[n + 1]>>
    ELSE NatStr(n \div 10) \o <<Digits[(n % 10) + 1]>>

\* f"{n}" of an int
IntStr(n) == IF n < 0 THEN <<"-">> \o NatStr(-n) ELSE NatStr(n)

\* f"{x:.2f}" of a float
Fixed2(x) ==
    CASE x.k = "nan" -> <<"n","a","n">>
      [] x.k = "inf" -> <<"i","n","f">>
      [] x.k = "ninf" -> <<"-","i","n","f">>
      [] OTHER ->
            (IF x.v < 0 THEN <<"-">> ELSE <<>>)
            \o NatStr((IF x.v < 0 THEN -x.v ELSE x.v) \div 100)
            \o <<".">>
            \o <<Digits[(((IF x.v < 0 THEN -x.v ELSE x.v) % 100) \div 10) + 1],
                 Digits[((IF x.v < 0 THEN -x.v ELSE x.v) % 10) + 1]>>

\* float(x).is_integer()
is_integer(x) == x.k = "fin" /\ x.v % 100 = 0

money_str(x) == IF is_integer(x) THEN IntStr(x.v \div 100) ELSE Fixed2(x)

print_item_cost(it) ==
    [kind |-> "item_cost",
     name |-> it.item_name,
     quantity |-> IntStr(it.item_quantity),
     price |-> money_str(it.item_price),
     total |-> money_str(total_cost(it))]

\* the lines print_total prints after the two header lines, given the count
print_total_body(items, num_items) ==
    IF num_items = 0
    THEN <<[kind |-> "empty"]>>
    ELSE [i \in DOMAIN items |-> print_item_cost(items[i])]
         \o <<[kind |-> "total", amount |-> money_str(get_cost_of_cart(items))]>>

\* print_total taking the cart for empty when it has no entries
print_total_len_check(items) ==
    <<[kind |-> "header"],
      [kind |-> "count", n |-> IntStr(get_num_items_in_cart(items))]>>
    \o print_total_body(items, Len(items))

print_total(items) ==
    <<[kind |-> "header"],
      [kind |-> "count", n |-> IntStr(get_num_items_in_cart(items))]>>
    \o print_total_body(items, get_num_items_in_cart(items))

(***************************************************************************)
(* Input helpers.  One read of input() yields a line or is cancelled       *)
(* (EOFError / KeyboardInterrupt).  Each helper is one pass of its loop:   *)
(* done = FALSE means the loop prompts again.                              *)
(***************************************************************************)
Line(s) == [eof |-> FALSE, line |-> s]
Cancel == [eof |-> TRUE, line |-> <<>>]

\* prompt_nonempty_string falling back to the empty string when cancelled
prompt_nonempty_string_default_empty(inp) ==
    IF inp.eof THEN [done |-> TRUE, val |-> <<>>, out |-> {"cancelled"}]
    ELSE LET s == Strip(inp.line)
         IN  IF s # <<>> THEN [done |-> TRUE, val |-> s, out |-> {}]
             ELSE [done |-> FALSE, val |-> s, out |-> {"empty"}]

prompt_nonempty_string(inp) ==
    IF inp.eof THEN [done |-> TRUE, val |-> NoneStr, out |-> {"cancelled"}]
    ELSE LET s == Strip(inp.line)
         IN  IF s # <<>> THEN [done |-> TRUE, val |-> s, out |-> {}]
             ELSE [done |-> FALSE, val |-> s, out |-> {"empty"}]

\* prompt_nonnegative_int asking again when the read is cancelled
prompt_nonnegative_int_retry_on_cancel(inp) ==
    IF inp.eof THEN [done |-> FALSE, val |-> 0, out |-> {"cancelled"}]
    ELSE LET raw == Strip(inp.line)
             n == ParseInt(raw)
         IN  IF raw = <<>> THEN [done |-> FALSE, val |-> 0, out |-> {"whole_number"}]
             ELSE IF Contains(raw, ".") \/ ~n.ok
             THEN [done |-> FALSE, val |-> 0, out |-> {"invalid_int"}]
             ELSE IF n.val < 0
             THEN [done |-> FALSE, val |-> 0, out |-> {"nonnegative"}]
             ELSE [done |-> TRUE, val |-> n.val, out |-> {}]

prompt_nonnegative_int(inp) ==
    IF inp.eof THEN [done |-> TRUE, val |-> 0, out |-> {"cancelled"}]
    ELSE LET raw == Strip(inp.line)
             n == ParseInt(raw)
         IN  IF raw = <<>> THEN [done |-> FALSE, val |-> 0, out |-> {"whole_number"}]
             ELSE IF Contains(raw, ".") \/ ~n.ok
             THEN [done |-> FALSE, val |-> 0, out |-> {"invalid_int"}]
             ELSE IF n.val < 0
             THEN [done |-> FALSE, val |-> 0, out |-> {"nonnegative"}]
             ELSE [done |-> TRUE, val |-> n.val, out |-> {}]

prompt_nonnegative_float(inp) ==
    IF inp.eof THEN [done |-> TRUE, val |-> Fin(0), out |-> {"cancelled"}]
    ELSE LET raw == Strip(inp.line)
             x == ParseFloat(raw)
         IN  IF ~x.ok THEN [done |-> FALSE, val |-> Fin(0), out |-> {"invalid_float"}]
             ELSE IF FLt0(x.val)
             THEN [done |-> FALSE, val |-> Fin(0), out |-> {"nonnegative"}]
             ELSE [done |-> TRUE, val |-> x.val, out |-> {}]

(***************************************************************************)
(* Lines a user types at each prompt                                       *)
(***************************************************************************)
MenuLines == { <<"a">>, <<"A"," ">>, <<"r">>, <<"c">>, <<"i">>, <<"o">>,
               <<"q">>, <<" ","Q">>, <<"x">>, <<>> }

\* names typed when adding an item
NameLines == { <<" ","p"," ">>, <<" ">> }

\* names typed when removing or changing an item
QueryLines == { <<"P">>, <<"N","O","N","E"," ">>, <<>> }

DescLines == { <<" ","n","o","n","e">>, <<>> }

PriceLines == { <<"2",".","5">>, <<"n","a","n">>, <<"-","1">>, <<"a","b","c">> }

QtyLines == { <<"2">>, <<"0">>, <<"-","1">>, <<"2",".","5">>, <<>>, <<"x">> }

\* what a call of input() can deliver: a line, or EOFError / KeyboardInterrupt;
\* once standard input is exhausted every call raises EOFError
Inputs(lines) == IF stdin_eof THEN {Cancel} ELSE {Cancel} \cup {Line(l) : l \in lines}

\* a cancelled read is an interrupt, or the end of the stream, which lasts
StreamAfter(inp) == stdin_eof' \in (IF inp.eof THEN {stdin_eof, TRUE} ELSE {stdin_eof})

\* the tables and the index of the course catalog of Module7.py; the cart
\* programs do not use them
NoCatalog == [rooms |-> <<>>, instructors |-> <<>>, times |-> <<>>, index |-> <<>>]

(***************************************************************************)
(* print_menu: the session.  pc is the prompt the program is blocked on;   *)
(* pending holds the locals name, desc, price of the command in progress;  *)
(* out is what the last step printed.                                      *)
(***************************************************************************)
NoPending == [name |-> <<>>, desc |-> <<>>, price |-> Fin(0)]

\* call records the cart operation the last step invoked, if any
\* with its arguments and the value it returned
NoCall == [op |-> "none", args |-> <<>>, ret |-> 0]

Called(op, args, ret) == [op |-> op, args |-> args, ret |-> ret]

\* the name and quantity of the item a cart operation was called with
NameQty(name, quantity) == [name |-> name, quantity |-> quantity]

\* lines typed for the customer's name and today's date
HeaderLines == { <<"b">>, <<>> }

\* the prompts of print_menu
LoopPcs == { "menu", "a_name", "a_desc", "a_price", "a_qty", "r_name", "c_name", "c_qty" }

SessionInit ==
    /\ cart_items = <<>>
    /\ pc = "main_name"
    /\ pending = NoPending
    /\ out = {}
    /\ raised = FALSE
    /\ call = NoCall
    /\ stdin_eof = FALSE
    /\ catalog = NoCatalog

\* customer_name = prompt_nonempty_string("Enter customer's name: ");
\* the header texts are not kept in the model
MainName ==
    /\ pc = "main_name"
    /\ \E inp \in Inputs(HeaderLines) :
         LET r == prompt_nonempty_string(inp)
         IN  /\ out' = r.out
             /\ pc' = IF r.done THEN "main_date" ELSE pc
             /\ StreamAfter(inp)
    /\ call' = NoCall
    /\ UNCHANGED <<cart_items, pending, raised, catalog>>

\* current_date = prompt_nonempty_string("Enter today's date: "), then the
\* cart is constructed and print_menu entered
MainDate ==
    /\ pc = "main_date"
    /\ \E inp \in Inputs(HeaderLines) :
         LET r == prompt_nonempty_string(inp)
         IN  /\ out' = r.out
             /\ pc' = IF r.done THEN "menu" ELSE pc
             /\ StreamAfter(inp)
    /\ call' = NoCall
    /\ UNCHANGED <<cart_items, pending, raised, catalog>>

\* input("Choose an option: ") and the dispatch on the choice; call records
\* the line that was read
MenuChoice ==
    /\ pc = "menu"
    /\ \E inp \in Inputs(MenuLines) :
         LET choice == Lower(Strip(inp.line))
         IN  /\ ~inp.eof
             /\ choice \in {<<"a">>, <<"r">>, <<"c">>, <<"i">>, <<"o">>}
             /\ choice = <<"a">> => Len(cart_items) < MaxItems
             /\ pc' = CASE choice = <<"a">> -> "a_name"
                        [] choice = <<"r">> -> "r_name"
                        [] choice = <<"c">> -> "c_name"
                        [] OTHER -> "menu"
             /\ out' = CASE choice = <<"i">> -> {"descriptions"}
                         [] choice = <<"o">> -> {"total"}
                         [] OTHER -> {}
             /\ call' = Called("choice", inp.line, 0)
             /\ StreamAfter(inp)
    /\ UNCHANGED <<cart_items, pending, raised, catalog>>

\* an unknown choice ending the loop instead of being reported
MenuInvalid_exits ==
    /\ pc = "menu"
    /\ \E inp \in Inputs(MenuLines) :
         LET choice == Lower(Strip(inp.line))
         IN  /\ ~inp.eof
             /\ choice \notin {<<"a">>, <<"r">>, <<"c">>, <<"i">>, <<"o">>, <<"q">>}
             /\ call' = Called("choice", inp.line, 0)
             /\ StreamAfter(inp)
    /\ out' = {"invalid_choice"}
    /\ pc' = "ended"
    /\ UNCHANGED <<cart_items, pending, raised, catalog>>

MenuInvalid ==
    /\ pc = "menu"
    /\ \E inp \in Inputs(MenuLines) :
         LET choice == Lower(Strip(inp.line))
         IN  /\ ~inp.eof
             /\ choice \notin {<<"a">>, <<"r">>, <<"c">>, <<"i">>, <<"o">>, <<"q">>}
             /\ call' = Called("choice", inp.line, 0)
             /\ StreamAfter(inp)
    /\ out' = {"invalid_choice"}
    /\ UNCHANGED <<cart_items, pc, pending, raised, catalog>>

MenuQuit ==
    /\ pc = "menu"
    /\ \E inp \in Inputs(MenuLines) :
         /\ ~inp.eof
         /\ Lower(Strip(inp.line)) = <<"q">>
         /\ call' = Called("choice", inp.line, 0)
         /\ StreamAfter(inp)
    /\ pc' = "ended"
    /\ out' = {}
    /\ UNCHANGED <<cart_items, pending, raised, catalog>>

MenuCancel ==
    /\ pc = "menu"
    /\ pc' = "ended"
    /\ out' = {"session_ended"}
    /\ call' = NoCall
    /\ StreamAfter(Cancel)
    /\ UNCHANGED <<cart_items, pending, raised, catalog>>

\* name = prompt_nonempty_string("Enter the item name: ")
AddName ==
    /\ pc = "a_name"
    /\ \E inp \in Inputs(NameLines) :
         LET r == prompt_nonempty_string(inp)
         IN  /\ out' = r.out
             /\ IF r.done
                THEN pc' = "a_desc" /\ pending' = [pending EXCEPT !.name = r.val]
                ELSE UNCHANGED <<pc, pending>>
             /\ StreamAfter(inp)
    /\ call' = NoCall
    /\ UNCHANGED <<cart_items, raised, catalog>>

\* desc = prompt_nonempty_string("Enter the item description: ")
AddDesc ==
    /\ pc = "a_desc"
    /\ \E inp \in Inputs(DescLines) :
         LET r == prompt_nonempty_string(inp)
         IN  /\ out' = r.out
             /\ IF r.done
                THEN pc' = "a_price" /\ pending' = [pending EXCEPT !.desc = r.val]
                ELSE UNCHANGED <<pc, pending>>
             /\ StreamAfter(inp)
    /\ call' = NoCall
    /\ UNCHANGED <<cart_items, raised, catalog>>

\* price = prompt_nonnegative_float("Enter the item price: ")
AddPrice ==
    /\ pc = "a_price"
    /\ \E inp \in Inputs(PriceLines) :
         LET r == prompt_nonnegative_float(inp)
         IN  /\ out' = r.out
             /\ IF r.done
                THEN pc' = "a_qty" /\ pending' = [pending EXCEPT !.price = r.val]
                ELSE UNCHANGED <<pc, pending>>
             /\ StreamAfter(inp)
    /\ call' = NoCall
    /\ UNCHANGED <<cart_items, raised, catalog>>

\* qty = prompt_nonnegative_int("Enter the item quantity: "), then
\* cart.add_item(ItemToPurchase(...))
AddQty ==
    /\ pc = "a_qty"
    /\ \E inp \in Inputs(QtyLines) :
         LET r == prompt_nonnegative_int(inp)
         IN  /\ out' = r.out
             /\ IF r.done
                THEN /\ cart_items' = add_item(cart_items,
                            ItemToPurchase(pending.name, pending.price, r.val, pending.desc))
                     /\ pc' = "menu"
                     /\ pending' = NoPending
                     /\ call' = Called("add", NameQty(pending.name, r.val), 0)
                ELSE /\ call' = NoCall
                     /\ UNCHANGED <<cart_items, pc, pending>>
             /\ StreamAfter(inp)
    /\ UNCHANGED <<raised, catalog>>

\* name = prompt_nonempty_string("Enter name of item to remove: "), then
\* cart.remove_item(name)
RemoveName ==
    /\ pc = "r_name"
    /\ \E inp \in Inputs(QueryLines) :
         LET r == prompt_nonempty_string(inp)
             res == remove_item(cart_items, r.val)
         IN  /\ IF r.done
                THEN /\ cart_items' = res.items
                     /\ out' = r.out \cup res.out
                     /\ pc' = "menu"
                     /\ call' = Called("remove", NameQty(r.val, 0), 0)
                ELSE /\ out' = r.out
                     /\ call' = NoCall
                     /\ UNCHANGED <<cart_items, pc>>
             /\ StreamAfter(inp)
    /\ UNCHANGED <<pending, raised, catalog>>

\* name = prompt_nonempty_string("Enter the item name: ")
ChangeName ==
    /\ pc = "c_name"
    /\ \E inp \in Inputs(QueryLines) :
         LET r == prompt_nonempty_string(inp)
         IN  /\ out' = r.out
             /\ IF r.done
                THEN pc' = "c_qty" /\ pending' = [pending EXCEPT !.name = r.val]
                ELSE UNCHANGED <<pc, pending>>
             /\ StreamAfter(inp)
    /\ call' = NoCall
    /\ UNCHANGED <<cart_items, raised, catalog>>

\* qty = prompt_nonnegative_int("Enter the new quantity: "), then
\* cart.modify_item(ItemToPurchase(item_name=name, item_quantity=qty))
ChangeQty ==
    /\ pc = "c_qty"
    /\ \E inp \in Inputs(QtyLines) :
         LET r == prompt_nonnegative_int(inp)
             res == modify_item(cart_items,
                        ItemToPurchase(pending.name, Fin(0), r.val, NoneStr))
         IN  /\ IF r.done
                THEN /\ cart_items' = res.items
                     /\ out' = r.out \cup res.out
                     /\ pc' = "menu"
                     /\ pending' = NoPending
                     /\ call' = Called("modify", NameQty(pending.name, r.val), 0)
                ELSE /\ out' = r.out
                     /\ call' = NoCall
                     /\ UNCHANGED <<cart_items, pc, pending>>
             /\ StreamAfter(inp)
    /\ UNCHANGED <<raised, catalog>>

\* an exception that print_menu does not handle (an OSError of print, a
\* UnicodeDecodeError of input) reaches the except clause of main, which
\* prints it and lets main return
LoopFault ==
    /\ pc \in LoopPcs
    /\ pc' = "ended"
    /\ pending' = NoPending
    /\ out' = {"unexpected_error"}
    /\ call' = NoCall
    /\ UNCHANGED <<cart_items, raised, stdin_eof, catalog>>

\* an exception raised in main before print_menu is entered reaches the
\* guard around main(), which prints it and calls sys.exit(1)
MainFault ==
    /\ pc \in {"main_name", "main_date"}
    /\ pc' = "ended"
    /\ out' = {"fatal_error"}
    /\ raised' = TRUE
    /\ call' = NoCall
    /\ UNCHANGED <<cart_items, pending, stdin_eof, catalog>>

\* the exit status of the process once the session has ended
exit_status == IF raised THEN 1 ELSE 0

\* one read of input() and what the program does with it
Read ==
    \/ MainName
    \/ MainDate
    \/ MenuChoice
    \/ MenuInvalid
    \/ MenuQuit
    \/ MenuCancel
    \/ AddName
    \/ AddDesc
    \/ AddPrice
    \/ AddQty
    \/ RemoveName
    \/ ChangeName
    \/ ChangeQty

Next ==
    \/ Read
    \/ LoopFault
    \/ MainFault

Spec == SessionInit /\ [][Next]_vars

(***************************************************************************)
(* The cart used as a library: add_item, remove_item, modify_item and the  *)
(* two queries called directly, with items the constructor accepts         *)
(* (it validates nothing, so prices and quantities may be negative).       *)
(***************************************************************************)
ApiItems ==
    { ItemToPurchase(<<"p">>, Fin(250), 2, <<"d">>),
      ItemToPurchase(<<"P">>, Fin(100), -1, NoneStr),
      ItemToPurchase(<<"q">>, Fin(-100), 3, <<"d">>) }

ApiQueries == { <<" ","P">>, <<"Q">>, <<"z">> }

ApiPatches ==
    { ItemToPurchase(n, x, q, d) :
        n \in { <<"P"," ">>, <<"Q">>, <<"z">> },
        x \in { Fin(0), Fin(250), Fin(-100) },
        q \in { 0, 2, -1 },
        d \in { NoneStr, <<"d">>, <<" ">> } }

ApiInit ==
    /\ cart_items = <<>>
    /\ pc = "api"
    /\ pending = NoPending
    /\ out = {}
    /\ raised = FALSE
    /\ call = NoCall
    /\ stdin_eof = FALSE
    /\ catalog = NoCatalog

ApiAdd ==
    /\ pc = "api"
    /\ Len(cart_items) < MaxItems
    /\ \E it \in ApiItems :
         /\ cart_items' = add_item(cart_items, it)
         /\ call' = Called("add", NameQty(it.item_name, it.item_quantity), 0)
    /\ out' = {}
    /\ UNCHANGED <<pc, pending, raised, stdin_eof, catalog>>

ApiRemove ==
    /\ pc = "api"
    /\ \E name \in ApiQueries :
         LET res == remove_item(cart_items, name)
         IN  /\ cart_items' = res.items
             /\ out' = res.out
             /\ call' = Called("remove", NameQty(name, 0), 0)
    /\ UNCHANGED <<pc, pending, raised, stdin_eof, catalog>>

ApiModifyWith(patch) ==
    LET res == modify_item(cart_items, patch)
    IN  /\ pc = "api"
        /\ cart_items' = res.items
        /\ out' = res.out
        /\ call' = Called("modify", NameQty(patch.item_name, patch.item_quantity), 0)
        /\ UNCHANGED <<pc, pending, raised, stdin_eof, catalog>>

ApiModify == \E patch \in ApiPatches : ApiModifyWith(patch)

ApiCount ==
    /\ pc = "api"
    /\ call' = Called("get_num_items_in_cart", <<>>, get_num_items_in_cart(cart_items))
    /\ out' = {}
    /\ UNCHANGED <<cart_items, pc, pending, raised, stdin_eof, catalog>>

ApiCost ==
    /\ pc = "api"
    /\ call' = Called("get_cost_of_cart", <<>>, get_cost_of_cart(cart_items))
    /\ out' = {}
    /\ UNCHANGED <<cart_items, pc, pending, raised, stdin_eof, catalog>>

ApiNext == ApiAdd \/ ApiRemove \/ ApiModify \/ ApiCount \/ ApiCost

SpecApi == ApiInit /\ [][ApiNext]_vars

(***************************************************************************)
(* One ItemToPurchase and one call of update or total_cost on it; the      *)
(* item is cart_items[1].                                                  *)
(***************************************************************************)
ItemDomain ==
    { ItemToPurchase(<<"p">>, x, q, d) :
        x \in { Fin(-100), Fin(0), Fin(250), PosInf, NaN },
        q \in { -1, 0, 2 },
        d \in { NoneStr, <<"d">> } }

NameArgs == { NoStr, Some(<<" ","x">>), Some(<<" ">>) }

DescArgs == { NoStr, Some(<<"e"," ">>), Some(<<>>) }

PriceArgs == { NoFloat, Some(Num(Fin(300))), Some(Num(Fin(-100))), Some(NotNum) }

QtyArgs == { NoInt, Some(IntArg(3)), Some(IntArg(-1)), Some(NotInt) }

ItemInit ==
    /\ cart_items \in { <<it>> : it \in ItemDomain }
    /\ pc = "item"
    /\ pending = NoPending
    /\ out = {}
    /\ raised = FALSE
    /\ call = NoCall
    /\ stdin_eof = FALSE
    /\ catalog = NoCatalog

ItemUpdate ==
    /\ pc = "item"
    /\ \E name \in NameArgs, description \in DescArgs,
          price \in PriceArgs, quantity \in QtyArgs :
         LET r == update(cart_items[1], name, description, price, quantity)
         IN  /\ cart_items' = <<r.item>>
             /\ raised' = r.raised
             /\ call' = Called("update", <<name, description, price, quantity>>, 0)
    /\ pc' = "returned"
    /\ UNCHANGED <<pending, out, stdin_eof, catalog>>

ItemTotalCost ==
    /\ pc = "item"
    /\ call' = Called("total_cost", <<>>, total_cost(cart_items[1]))
    /\ pc' = "returned"
    /\ UNCHANGED <<cart_items, pending, out, raised, stdin_eof, catalog>>

ItemNext == ItemUpdate \/ ItemTotalCost

SpecItem == ItemInit /\ [][ItemNext]_vars

(***************************************************************************)
(* Module7.py, the course catalog: three tables from course code to room,  *)
(* instructor and meeting time, the index built from them and the lookup   *)
(* of a code.  A table is a function on its set of keys.                   *)
(***************************************************************************)
UpperChar(c) ==
    IF \E i \in DOMAIN LowerLetters : LowerLetters[i] = c
    THEN UpperLetters[CHOOSE i \in DOMAIN LowerLetters : LowerLetters[i] = c]
    ELSE c

\* str.upper()
Upper(s) == [i \in DOMAIN s |-> UpperChar(s[i])]

CourseInfo(room, instructor, time) ==
    [room |-> room, instructor |-> instructor, time |-> time]

\* TRUE when validate_catalog raises CatalogIntegrityError
validate_catalog(rooms, instructors, times) ==
    ~(DOMAIN rooms = DOMAIN instructors /\ DOMAIN instructors = DOMAIN times)

build_index(rooms, instructors, times) ==
    IF validate_catalog(rooms, instructors, times)
    THEN [raised |-> TRUE, index |-> <<>>]
    ELSE [raised |-> FALSE,
          index |-> [code \in DOMAIN rooms |->
                        CourseInfo(rooms[code], instructors[code], times[code])]]

\* normalize_course_code that does not trim
normalize_course_code_no_strip(code) == Upper(code)

normalize_course_code(code) == Upper(Strip(code))

\* found = FALSE is the KeyError of index[norm]
get_course_info(code, index) ==
    IF normalize_course_code(code) \in DOMAIN index
    THEN [found |-> TRUE, info |-> index[normalize_course_code(code)]]
    ELSE [found |-> FALSE, info |-> CourseInfo("", "", "")]

\* the keys the tables may have: one as the catalog writes them, one in
\* lower case
CatalogKeys == { <<"C","1">>, <<"n","1">> }

RoomValues == { "3004", "4501" }

InstructorValues == { "Haynes", "Alvarado" }

TimeValues == { "8:00 a.m.", "9:00 a.m." }

\* every table with keys among CatalogKeys and values among V
Tables(V) == UNION { [K -> V] : K \in SUBSET CatalogKeys }

\* codes passed to get_course_info
CatalogQueries ==
    { <<" ","c","1"," ">>, <<"C","1">>, <<"n","1">>, <<"x","9">>, <<>> }

CatalogInit ==
    /\ cart_items = <<>>
    /\ pc = "catalog"
    /\ pending = NoPending
    /\ out = {}
    /\ raised = FALSE
    /\ call = NoCall
    /\ stdin_eof = FALSE
    /\ catalog \in { [rooms |-> r, instructors |-> n, times |-> t, index |-> <<>>] :
                       r \in Tables(RoomValues),
                       n \in Tables(InstructorValues),
                       t \in Tables(TimeValues) }

\* index = build_index(COURSE_TO_ROOM, COURSE_TO_INSTRUCTOR, COURSE_TO_TIME)
CatalogBuild ==
    /\ pc = "catalog"
    /\ catalog' = [catalog EXCEPT
                     !.index = build_index(catalog.rooms, catalog.instructors,
                                           catalog.times).index]
    /\ raised' = build_index(catalog.rooms, catalog.instructors, catalog.times).raised
    /\ pc' = IF raised' THEN "catalog_error" ELSE "indexed"
    /\ call' = Called("build_index", <<>>, 0)
    /\ UNCHANGED <<cart_items, pending, out, stdin_eof>>

\* info = get_course_info(code, index)
CatalogLookup ==
    /\ pc = "indexed"
    /\ \E code \in CatalogQueries :
         call' = Called("get_course_info", code, get_course_info(code, catalog.index))
    /\ UNCHANGED <<cart_items, pc, pending, out, raised, stdin_eof, catalog>>

CatalogNext == CatalogBuild \/ CatalogLookup

SpecCatalog == CatalogInit /\ [][CatalogNext]_vars

(***************************************************************************)
(* Properties                                                              *)
(***************************************************************************)
\* indices of the items whose name equals the trimmed name, ignoring case
Matching(items, name) ==
    { i \in DOMAIN items : Lower(items[i].item_name) = Lower(Strip(name)) }

Least(S) == CHOOSE i \in S : \A j \in S : i <= j

\* C1: in every state of a cart session every item held by the cart has
\* price >= 0 and quantity >= 0.
CartItemsNonNegative ==
    \A i \in DOMAIN cart_items :
        /\ FGe0(cart_items[i].item_price)
        /\ cart_items[i].item_quantity >= 0

\* a supplied field of an update call that the specification calls invalid
SuppliedInvalid(a) ==
    \/ a[1].given /\ Strip(a[1].v) = <<>>
    \/ a[2].given /\ Strip(a[2].v) = <<>>
    \/ a[3].given /\ a[3].v.num /\ FLt0(a[3].v.x)
    \/ a[4].given /\ (~a[4].v.int \/ a[4].v.n < 0)

\* C2: update is all-or-nothing: when a supplied field is invalid the call
\* fails, and a failed call leaves all four fields of the item as they were.
UpdateAllOrNothing ==
    [][call'.op = "update" =>
          /\ SuppliedInvalid(call'.args) => raised'
          /\ raised' => cart_items' = cart_items]_vars

\* a non-sentinel field of a patch that fails validation
PatchFails(patch) ==
    \/ patch.item_description # NoneStr /\ Strip(patch.item_description) = <<>>
    \/ FNe0(patch.item_price) /\ FLt0(patch.item_price)
    \/ patch.item_quantity # 0 /\ patch.item_quantity < 0

\* C3: when modify finds its target and a non-sentinel field of the patch
\* fails validation, the modification is rejected with a message, nothing is
\* raised, and the cart (the target included) is as it was before the call.
ModifyRejectedLeavesTarget ==
    [][\A patch \in ApiPatches :
          (/\ ApiModifyWith(patch)
           /\ Matching(cart_items, patch.item_name) # {}
           /\ PatchFails(patch))
          => /\ out' = {"rejected"}
             /\ ~raised'
             /\ cart_items' = cart_items]_vars

\* C4: a modify whose patch has the sentinel description and price leaves
\* the cart as it was when the patch quantity is 0, and with a positive
\* quantity changes the quantity of the first matching item and nothing
\* else; so the command c never turns a quantity into 0.
ChangeSetsQuantityOnly ==
    [][call'.op = "modify" =>
          LET q == call'.args.quantity
              M == Matching(cart_items, call'.args.name)
          IN  /\ Len(cart_items') = Len(cart_items)
              /\ \A i \in DOMAIN cart_items :
                    cart_items'[i].item_quantity = 0 => cart_items[i].item_quantity = 0
              /\ (M # {} /\ q = 0) => cart_items' = cart_items
              /\ (M # {} /\ q > 0) =>
                    cart_items' = [cart_items EXCEPT ![Least(M)].item_quantity = q]]_vars

\* C4 witness: the command c gave the second of two items, whose quantity
\* was 0, the quantity 2.
ChangeSetsQuantityReached ==
    /\ call.op = "modify"
    /\ call.args.quantity = 2
    /\ Len(cart_items) = 2
    /\ Matching(cart_items, call.args.name) = {2}
    /\ cart_items[2].item_quantity = 2
    /\ cart_items[1].item_quantity = 0
    /\ out = {}

\* C5: remove matches names ignoring case and, when an item matches,
\* deletes exactly the first matching item: the items before it and after
\* it keep their order and values.
RemoveFirstMatch ==
    [][call'.op = "remove" =>
          LET M == Matching(cart_items, call'.args.name)
          IN  M # {} =>
                LET f == Least(M)
                IN  /\ Len(cart_items') = Len(cart_items) - 1
                    /\ \A i \in 1..(f - 1) : cart_items'[i] = cart_items[i]
                    /\ \A i \in f..(Len(cart_items) - 1) :
                          cart_items'[i] = cart_items[i + 1]]_vars

\* C5 witness: a remove succeeded and a later item of the same name, stored
\* in another case than the name asked for, is still in the cart.
RemoveFirstMatchReached ==
    /\ call.op = "remove"
    /\ out = {}
    /\ \E i \in Matching(cart_items, call.args.name) :
          cart_items[i].item_name # Strip(call.args.name)

\* C6: remove with a name that matches no item (the empty cart included)
\* leaves the cart as it was, reports not-found and raises nothing.
RemoveNotFound ==
    [][(call'.op = "remove" /\ Matching(cart_items, call'.args.name) = {}) =>
          /\ cart_items' = cart_items
          /\ out' = {"not_found_removed"}
          /\ ~raised']_vars

\* C6 witness: a remove on a cart that holds items found none to remove.
RemoveNotFoundReached ==
    /\ call.op = "remove"
    /\ out = {"not_found_removed"}
    /\ cart_items # <<>>
    /\ Matching(cart_items, call.args.name) = {}

\* C7: modify with a patch whose name matches no item reports not-found
\* and leaves the cart as it was: no item field, item_count() and
\* total_cost() all unchanged.
ModifyNotFound ==
    [][(call'.op = "modify" /\ Matching(cart_items, call'.args.name) = {}) =>
          /\ out' = {"not_found_modified"}
          /\ cart_items' = cart_items
          /\ get_num_items_in_cart(cart_items') = get_num_items_in_cart(cart_items)
          /\ get_cost_of_cart(cart_items') = get_cost_of_cart(cart_items)]_vars

\* C7 witness: a patch with a non-sentinel quantity found no target in a
\* cart that holds items.
ModifyNotFoundReached ==
    /\ call.op = "modify"
    /\ out = {"not_found_modified"}
    /\ call.args.quantity # 0
    /\ cart_items # <<>>

\* sum of the quantities of the first n items, a negative one counted as 0
RECURSIVE QuantitySum(_, _)
QuantitySum(items, n) ==
    IF n = 0 THEN 0
    ELSE QuantitySum(items, n - 1)
         + (IF items[n].item_quantity < 0 THEN 0 ELSE items[n].item_quantity)

\* C8: item_count() is the sum over the items of the quantity, a negative
\* quantity counted as 0; it is not the number of entries.
ItemCountIsQuantitySum ==
    call.op = "get_num_items_in_cart" =>
        call.ret = QuantitySum(cart_items, Len(cart_items))

\* C8 witness: item_count() was asked of a cart holding a negative quantity
\* and returned something other than the number of entries.
ItemCountReached ==
    /\ call.op = "get_num_items_in_cart"
    /\ \E i \in DOMAIN cart_items : cart_items[i].item_quantity < 0
    /\ call.ret # Len(cart_items)
    /\ call.ret > 0

\* C9: total_cost() is price * quantity when both are non-negative, 0 when
\* either is negative, never negative, and leaves the item as it was.
TotalCostValue ==
    [][call'.op = "total_cost" =>
          LET it == cart_items[1]
              r == call'.ret
          IN  /\ cart_items' = cart_items
              /\ (FGe0(it.item_price) /\ it.item_quantity >= 0)
                    => r = FMulInt(it.item_price, it.item_quantity)
              /\ (FLt0(it.item_price) \/ it.item_quantity < 0) => r = Fin(0)
              /\ ~FLt0(r)]_vars

\* the costs of the first n items added up from the last to the first
RECURSIVE CostSum(_, _)
CostSum(items, n) ==
    IF n = 0 THEN Fin(0)
    ELSE FAdd(total_cost(items[n]), CostSum(items, n - 1))

\* C10: the cart's total_cost() is the sum of total_cost() over the items
\* in the cart, 0 for the empty cart.
CartCostIsSum ==
    call.op = "get_cost_of_cart" =>
        /\ call.ret = CostSum(cart_items, Len(cart_items))
        /\ cart_items = <<>> => call.ret = Fin(0)

\* C10 witness: the total of a cart of two items with a non-zero total.
CartCostReached ==
    /\ call.op = "get_cost_of_cart"
    /\ Len(cart_items) = 2
    /\ call.ret.k = "fin"
    /\ call.ret.v > 0
    /\ total_cost(cart_items[1]) # call.ret

\* C11: add_item always succeeds and appends the item at the end: the
\* cart grows by exactly one, the items already there keep their positions
\* and values, and an item whose name is already present is appended too.
AddAppends ==
    [][call'.op = "add" =>
          /\ ~raised'
          /\ Len(cart_items') = Len(cart_items) + 1
          /\ SubSeq(cart_items', 1, Len(cart_items)) = cart_items
          /\ cart_items'[Len(cart_items')] \in ApiItems
          /\ cart_items'[Len(cart_items')].item_name = call'.args.name
          /\ cart_items'[Len(cart_items')].item_quantity = call'.args.quantity]_vars

\* C11 witness: an add left two items with the same name in the cart.
AddAppendsReached ==
    /\ call.op = "add"
    /\ Len(cart_items) = 2
    /\ cart_items[1].item_name = cart_items[2].item_name

\* the choices print_menu knows
MenuTokens == { <<"a">>, <<"r">>, <<"c">>, <<"i">>, <<"o">>, <<"q">> }

\* C12: the command loop reads a choice, trims and lowercases it; 'q'
\* ends the loop without changing the cart; a token that is none of
\* a, r, c, i, o, q is reported as an invalid choice, leaves the cart
\* unchanged and the loop awaiting the next command; i and o never change
\* the cart; and no step leaves the ended state.
CommandLoop ==
    [][/\ pc # "ended"
       /\ call'.op = "choice" =>
            LET token == Lower(Strip(call'.args))
            IN  /\ pc = "menu"
                /\ token = <<"q">> => (pc' = "ended" /\ cart_items' = cart_items)
                /\ token \notin MenuTokens =>
                      /\ "invalid_choice" \in out'
                      /\ cart_items' = cart_items
                      /\ pc' = "menu"
                /\ token \in {<<"i">>, <<"o">>} =>
                      /\ cart_items' = cart_items
                      /\ pc' = "menu"
                /\ "invalid_choice" \in out' => token \notin MenuTokens]_vars

\* C12 witness: the line ' Q' ended a session whose cart holds an item.
CommandLoopReached ==
    /\ pc = "ended"
    /\ call.op = "choice"
    /\ call.args = <<" ","Q">>
    /\ cart_items # <<>>

\* C13: a cancelled read (end of input or an interrupt) at any prompt, the
\* menu's or one inside an a/r/c flow, is a request to end the session: the
\* prompt in flight takes its default, the loop does not crash, and the
\* session then ends with the closing message instead of accepting further
\* commands.  Stated on single steps: a cancelled menu read ends the loop
\* with the closing message, and once a command has run on a cancelled
\* prompt the menu accepts no other command.
CancelEndsSession ==
    [][/\ (pc = "menu" /\ call'.op = "none" /\ "unexpected_error" \notin out') =>
              (pc' = "ended" /\ "session_ended" \in out')
       /\ (pc = "menu" /\ "cancelled" \in out /\ call.op \in {"add", "remove", "modify"}) =>
              call'.op # "choice"]_vars

\* C14: the process exits with status 0 when the session ends normally and
\* with a non-zero status whenever an unexpected failure occurred anywhere
\* in the session, the command loop included, after printing a diagnostic.
ExitStatusTellsFailure ==
    pc = "ended" =>
        LET failed == out \cap {"unexpected_error", "fatal_error"} # {}
        IN  /\ ~failed => exit_status = 0
            /\ failed => exit_status # 0
            /\ exit_status # 0 => failed

\* an optional minus sign and digits only
BareInteger(s) == AllDigits(Unsigned(s)) /\ (HasSign(s) => Head(s) = "-")

\* an optional minus sign, digits, a point and exactly two digits
TwoDecimals(s) ==
    LET u == Unsigned(s)
    IN  /\ HasSign(s) => Head(s) = "-"
        /\ Len(u) >= 4
        /\ u[Len(u) - 2] = "."
        /\ AllDigits(SubSeq(u, 1, Len(u) - 3))
        /\ AllDigits(SubSeq(u, Len(u) - 1, Len(u)))

\* the text s shows the amount x as the claim requires, and reads back as x
MoneyShown(x, s) ==
    /\ IF is_integer(x) THEN BareInteger(s) ELSE TwoDecimals(s)
    /\ ParseFloat(s).ok
    /\ ParseFloat(s).val = x

\* C15: every amount in an item cost line or in the cart total is shown
\* as a bare integer when it is a whole number and with exactly two
\* decimal places otherwise.
MoneyRendering ==
    out = {"total"} =>
        LET lines == print_total(cart_items)
        IN  \A i \in DOMAIN lines :
               /\ lines[i].kind = "item_cost" =>
                     /\ MoneyShown(cart_items[i - 2].item_price, lines[i].price)
                     /\ MoneyShown(total_cost(cart_items[i - 2]), lines[i].total)
               /\ lines[i].kind = "total" =>
                     MoneyShown(get_cost_of_cart(cart_items), lines[i].amount)

\* C16: the summary prints the header and the item count, then the empty
\* sentinel and nothing else exactly when the item count is 0, otherwise
\* one cost line per item in insertion order followed by the total; a cart
\* whose items all have quantity 0 is reported as empty and none is listed.
SummaryShape ==
    out = {"total"} =>
        LET lines == print_total(cart_items)
            count == QuantitySum(cart_items, Len(cart_items))
        IN  /\ Len(lines) >= 3
            /\ lines[1].kind = "header"
            /\ lines[2] = [kind |-> "count", n |-> IntStr(count)]
            /\ count = 0 <=> lines[3].kind = "empty"
            /\ count = 0 => Len(lines) = 3
            /\ count # 0 =>
                  /\ Len(lines) = Len(cart_items) + 3
                  /\ \A i \in DOMAIN cart_items :
                        /\ lines[i + 2].kind = "item_cost"
                        /\ lines[i + 2].name = cart_items[i].item_name
                        /\ lines[i + 2].quantity = IntStr(cart_items[i].item_quantity)
                        /\ lines[i + 2].price = money_str(cart_items[i].item_price)
                        /\ lines[i + 2].total = money_str(total_cost(cart_items[i]))
                  /\ lines[Len(lines)] =
                        [kind |-> "total", amount |-> money_str(get_cost_of_cart(cart_items))]

\* C16 witness: the summary of a cart of two items, both of quantity 0.
SummaryShapeReached ==
    /\ out = {"total"}
    /\ Len(cart_items) = 2
    /\ \A i \in DOMAIN cart_items : cart_items[i].item_quantity = 0

\* the messages a numeric prompt prints before asking again
RepromptMessages == {"whole_number", "invalid_int", "nonnegative", "invalid_float"}

\* C17: a numeric prompt never returns an invalid value: on a malformed or
\* negative line it prints a message and asks again with the cart
\* unchanged; the value it finally returns is a non-negative integer
\* (quantity) or a non-negative number (price), the default 0 when the
\* read was cancelled.
NumericPromptValid ==
    [][/\ (pc \in {"a_price", "a_qty", "c_qty"} /\ pc' = pc) =>
             /\ out' \cap RepromptMessages # {}
             /\ cart_items' = cart_items
       /\ (pc = "a_price" /\ pc' = "a_qty") =>
             /\ FGe0(pending'.price)
             /\ "cancelled" \in out' => pending'.price = Fin(0)
       /\ (pc \in {"a_qty", "c_qty"} /\ pc' = "menu") =>
             /\ call'.args.quantity \in Nat
             /\ "cancelled" \in out' => call'.args.quantity = 0]_vars

\* C18: a cancelled prompt inside a command flow does not abort the
\* command: the flow goes on with the prompt's default ('none' for a text,
\* 0 for a number).  A cancelled add flow still appends exactly one item;
\* a cancelled name prompt of the remove flow calls remove('none'), which
\* removes the first item named 'none' ignoring case, if any, and
\* otherwise leaves the cart unchanged.
CancelledFlowRuns ==
    [][("cancelled" \in out' /\ pc \in LoopPcs) =>
          /\ pc = "a_name" =>
                (pc' = "a_desc" /\ pending'.name = NoneStr /\ cart_items' = cart_items)
          /\ pc = "a_desc" =>
                (pc' = "a_price" /\ pending'.desc = NoneStr /\ cart_items' = cart_items)
          /\ pc = "a_price" =>
                (pc' = "a_qty" /\ pending'.price = Fin(0) /\ cart_items' = cart_items)
          /\ pc = "a_qty" =>
                /\ pc' = "menu"
                /\ cart_items' = Append(cart_items,
                        ItemToPurchase(pending.name, pending.price, 0, pending.desc))
          /\ pc = "r_name" =>
                /\ pc' = "menu"
                /\ call' = Called("remove", NameQty(NoneStr, 0), 0)
                /\ cart_items' =
                        IF Matching(cart_items, NoneStr) = {} THEN cart_items
                        ELSE DelAt(cart_items, Least(Matching(cart_items, NoneStr)))
          /\ pc = "c_name" =>
                (pc' = "c_qty" /\ pending'.name = NoneStr /\ cart_items' = cart_items)
          /\ pc = "c_qty" =>
                (pc' = "menu" /\ call' = Called("modify", NameQty(pending.name, 0), 0))]_vars

\* C18 witness: a remove flow whose name prompt was cancelled removed the
\* first of two items named 'none'.
CancelledFlowRunsReached ==
    /\ call.op = "remove"
    /\ "cancelled" \in out
    /\ "not_found_removed" \notin out
    /\ Len(cart_items) = 1
    /\ cart_items[1].item_name = NoneStr

\* the number of reads the session is away from its end when every read
\* reports end of input
EofRank(p) ==
    CASE p = "ended" -> 0
      [] p = "menu" -> 1
      [] p \in {"a_qty", "r_name", "c_qty"} -> 2
      [] p \in {"a_price", "c_name", "main_date"} -> 3
      [] p \in {"a_desc", "main_name"} -> 4
      [] p = "a_name" -> 5

\* C19: once the input stream is exhausted, so that every further read
\* reports end of input, the session ends after finitely many steps from
\* any state, in the middle of an a/r/c flow and in a re-prompt loop too;
\* no prompt loops forever on end of input.  Every step taken on an
\* exhausted stream brings the session strictly closer to its end, and
\* until it has ended a read that changes the state is always possible.
EofEndsSession ==
    /\ [][stdin_eof => EofRank(pc') < EofRank(pc)]_vars
    /\ [](stdin_eof /\ pc # "ended" => ENABLED <<Read>>_vars)

\* C19 witness: the stream ran out and the session, its cart holding an
\* item of quantity 0, ended with the closing message.
EofEndsSessionReached ==
    /\ stdin_eof
    /\ pc = "ended"
    /\ "session_ended" \in out
    /\ cart_items # <<>>
    /\ cart_items[Len(cart_items)].item_quantity = 0
    /\ cart_items[Len(cart_items)].item_name = <<"p">>

\* C20: validate_catalog raises CatalogIntegrityError exactly when the key
\* sets of the three tables are not all equal; build_index either raises
\* without returning an index or returns an index whose key set is the
\* common key set, each entry holding that course's room, instructor and
\* time; a lookup succeeds for a code exactly when the code, trimmed and
\* upper-cased, is a key of the index, and then returns that entry.
CatalogContract ==
    [][/\ pc = "catalog" =>
            LET rooms == catalog.rooms
                instructors == catalog.instructors
                times == catalog.times
                aligned == /\ DOMAIN rooms = DOMAIN instructors
                           /\ DOMAIN rooms = DOMAIN times
            IN  /\ validate_catalog(rooms, instructors, times) <=> ~aligned
                /\ ~aligned => (raised' /\ pc' = "catalog_error" /\ catalog' = catalog)
                /\ aligned =>
                      /\ ~raised'
                      /\ pc' = "indexed"
                      /\ DOMAIN catalog'.index = DOMAIN rooms
                      /\ \A code \in DOMAIN rooms :
                            /\ catalog'.index[code].room = rooms[code]
                            /\ catalog'.index[code].instructor = instructors[code]
                            /\ catalog'.index[code].time = times[code]
       /\ call'.op = "get_course_info" =>
            LET norm == Upper(Strip(call'.args))
            IN  /\ pc = "indexed"
                /\ call'.ret.found <=> norm \in DOMAIN catalog.index
                /\ call'.ret.found => call'.ret.info = catalog.index[norm]]_vars

\* C20 witness: the code ' c1 ' was looked up and found in an index of two
\* courses.
CatalogContractReached ==
    /\ call.op = "get_course_info"
    /\ call.args = <<" ","c","1"," ">>
    /\ call.ret.found
    /\ DOMAIN catalog.index = CatalogKeys

====
